---- MODULE Spec2Model ----
(***************************************************************************)
(* A model of the shared-state utilities of sputil (src/single/sputil.hpp): *)
(*   threading::ThreadPool, concurrency::ConcurrentQueue,                  *)
(*   concurrency::RateLimiter and algorithm::LRUCache.                     *)
(* Each component has its own variables, initial predicate, next-state     *)
(* relation and specification (SpecPool, SpecQueue, SpecRate, SpecLRU);    *)
(* a component's specification leaves the other components' variables      *)
(* in their initial (idle) state.                                          *)
(***************************************************************************)
EXTENDS Integers, Sequences, FiniteSets, TLC

\* ------------------------------------------------------------------ bounds
\* Largest worker count given to ThreadPool's constructor.
MaxWorkers == 2
\* Largest number of enqueue calls made on one pool.
MaxTasks == 3
\* Largest number of items pushed to a ConcurrentQueue, over all producers.
MaxPush == 3
\* Largest number of acquire calls made on one RateLimiter.
MaxGrants == 3
\* Clock ticks per millisecond: steady_clock is finer than the milliseconds
\* the limiter computes in.
TicksPerMs == 2
\* Largest capacity given to LRUCache's constructor.
MaxCap == 2

VARIABLES
    \* ---- threading::ThreadPool (sputil.hpp 377-443)
    nthreads,      \* the constructor's argument `threads` (size of `workers`)
    tasks,         \* std::queue<std::function<void()>> tasks
    stop,          \* std::atomic<bool> stop
    queue_mutex,   \* std::mutex queue_mutex: 0 when free, else the holder's thread id
    wpc,           \* each worker thread's position in the loop of lines 393-409
    wtask,         \* each worker's local `task` (0: none)
    spc,           \* each caller thread's position in enqueue / ~ThreadPool
    scur,          \* the packaged_task a caller's running enqueue call created (0: none)
    sres,          \* how a caller's last enqueue call (or a repeated shutdown) ended
    tstate,        \* each packaged_task / future: its life so far
    runs,          \* how many times each task's body has been invoked
    ntasks,        \* number of packaged_tasks created so far
    enqOrder,      \* the tasks enqueue accepted that no worker has taken yet, oldest first
    \* ---- concurrency::ConcurrentQueue (sputil.hpp 469-516)
    cq,            \* std::queue<T> queue
    cq_mutex,      \* std::mutex mutex: 0 when free, else the holder's thread id
    ppc,           \* each producer thread's position in push
    pushed,        \* number of items each producer has put into the queue
    cpc,           \* each consumer thread's position in pop / try_pop
    cval,          \* each consumer's variable receiving the popped value
    cret,          \* how each consumer's last pop / try_pop call returned
    popLog,        \* the items removed from the queue, in order of removal
    \* ---- concurrency::RateLimiter (sputil.hpp 518-543)
    calls_per_second, \* the constructor's argument
    min_delay,     \* std::chrono::milliseconds min_delay, in milliseconds
    last_call,     \* steady_clock::time_point last_call, in clock ticks
    clock,         \* the latest reading of std::chrono::steady_clock, in ticks
    rl_mutex,      \* std::mutex mutex: 0 when free, else the holder's thread id
    rpc,           \* each calling thread's position in acquire
    rnow,          \* each caller's local `now`
    relapsed,      \* each caller's local `elapsed`, in milliseconds
    grants,        \* the values written to last_call by acquire, in order
    rslept,        \* whether each caller's running acquire call has slept
    waited,        \* for each grant, whether its acquire call slept
    \* ---- algorithm::LRUCache (sputil.hpp 572-619)
    capacity,      \* size_t capacity
    items,         \* std::list<T> items: the list's nodes, front first
    nodeKey,       \* the key stored in each list node (0: the node is not allocated)
    cache_map,     \* std::unordered_map<T, list<T>::iterator>: key -> node (0: no entry)
    lret,          \* the last call made on the cache and what it returned
    lhist,         \* the put and get calls made since construction
    tpc,           \* each thread's position inside a put or get it runs with no lock
    tkey,          \* the argument `key` of that call
    tit            \* the node its local iterator `it` referred to at find (0: end())

poolVars == <<nthreads, tasks, stop, queue_mutex, wpc, wtask, spc, scur, sres,
              tstate, runs, ntasks, enqOrder>>

queueVars == <<cq, cq_mutex, ppc, pushed, cpc, cval, cret, popLog>>

rateVars == <<calls_per_second, min_delay, last_call, clock, rl_mutex, rpc, rnow,
              relapsed, rslept, grants, waited>>

\* The locals of the threads that call one cache at the same time.
lruThreadVars == <<tpc, tkey, tit>>

lruVars == <<capacity, items, nodeKey, cache_map, lret, lhist, lruThreadVars>>

vars == <<poolVars, queueVars, rateVars, lruVars>>

\* What a step of one component leaves alone: the other components.
notPool == <<queueVars, rateVars, lruVars>>
notQueue == <<poolVars, rateVars, lruVars>>
notRate == <<poolVars, queueVars, lruVars>>
notLRU == <<poolVars, queueVars, rateVars, lruThreadVars>>
notLRUThreads == <<poolVars, queueVars, rateVars, lret, lhist>>

\* ================================================================ ThreadPool

\* Thread ids: the workers are 1..MaxWorkers (the first nthreads of them exist),
\* then the thread that owns the pool (it enqueues and later destroys the pool)
\* and a second thread that only enqueues.
Workers == 1..MaxWorkers
Main == MaxWorkers + 1
Aux == MaxWorkers + 2
Callers == {Main, Aux}
TaskIds == 1..MaxTasks

\* The threads blocked inside condition.wait (line 398).
Waiting == {w \in Workers : wpc[w] = "waiting"}

\* The pool object exists until ~ThreadPool has returned.
PoolAlive == spc[Main] \notin {"destroyed", "again_crit", "again_notify", "again_join",
                              "destroyed_twice"}

InitPool ==
    /\ nthreads \in 0..MaxWorkers
    /\ tasks = <<>>
    /\ stop = FALSE
    /\ queue_mutex = 0
    /\ wpc = [w \in Workers |-> IF w <= nthreads THEN "lock" ELSE "absent"]
    /\ wtask = [w \in Workers |-> 0]
    /\ spc = [c \in Callers |-> "idle"]
    /\ scur = [c \in Callers |-> 0]
    /\ sres = [c \in Callers |-> "none"]
    /\ tstate = [t \in TaskIds |-> "none"]
    /\ runs = [t \in TaskIds |-> 0]
    /\ ntasks = 0
    /\ enqOrder = <<>>

\* ---- the worker loop, lines 393-409

\* line 397: std::unique_lock<std::mutex> lock(this->queue_mutex); also the
\* re-acquisition of the mutex when condition.wait wakes up.
WorkerLock(w) ==
    /\ wpc[w] = "lock"
    /\ queue_mutex = 0
    /\ queue_mutex' = w
    /\ wpc' = [wpc EXCEPT ![w] = "check"]
    /\ UNCHANGED <<nthreads, tasks, stop, wtask, spc, scur, sres, tstate, runs, ntasks>>
    /\ UNCHANGED enqOrder
    /\ UNCHANGED notPool

\* lines 398-401: the predicate of condition.wait.
WorkerWaitPred == stop \/ tasks # <<>>

\* line 403, as a mutant: a worker that leaves as soon as stop is set.
WorkerExitTestStopOnly == stop

\* line 403: if (this->stop && this->tasks.empty()) return;
WorkerExitTest == stop /\ tasks = <<>>

\* line 406, as a mutant: the front task is copied out but not popped.
TasksAfterDequeueKept(q) == q

\* line 406: this->tasks.pop() removes the front task.
TasksAfterDequeue(q) == Tail(q)

\* line 407, as a mutant: the unique_lock lives until the end of the loop's
\* body, so the mutex is held while the task runs.
MutexAfterDequeueHeld(w) == w

\* line 407: the block of the unique_lock ends before task(), its destructor
\* unlocks the mutex.
MutexAfterDequeue(w) == 0

\* lines 398-407 with the mutex held: wait's predicate is evaluated; when it is
\* false the worker releases the mutex and blocks; when it is true the worker
\* either returns (line 403) or moves the front task out (405-406); the closing
\* brace of line 407 releases the mutex.
WorkerCheck(w) ==
    /\ wpc[w] = "check"
    /\ queue_mutex = w
    /\ IF ~WorkerWaitPred
       THEN \* condition.wait unlocks the mutex while the thread is blocked
            /\ queue_mutex' = 0
            /\ wpc' = [wpc EXCEPT ![w] = "waiting"]
            /\ UNCHANGED <<tasks, wtask, tstate, enqOrder>>
       ELSE IF WorkerExitTest
       THEN \* return: the unique_lock's destructor unlocks the mutex
            /\ queue_mutex' = 0
            /\ wpc' = [wpc EXCEPT ![w] = "exited"]
            /\ UNCHANGED <<tasks, wtask, tstate, enqOrder>>
       ELSE \* lines 405-406: the wait predicate holds and the exit test does
            \* not, so the queue is not empty here and front() is defined.
            /\ tasks # <<>>
            /\ wtask' = [wtask EXCEPT ![w] = Head(tasks)]
            /\ tasks' = TasksAfterDequeue(tasks)
            /\ enqOrder' = SelectSeq(enqOrder, LAMBDA x : x # Head(tasks))
            /\ tstate' = [tstate EXCEPT ![Head(tasks)] = "running"]
            /\ queue_mutex' = MutexAfterDequeue(w)
            /\ wpc' = [wpc EXCEPT ![w] = "run"]
    /\ UNCHANGED <<nthreads, stop, spc, scur, sres, runs, ntasks>>
    /\ UNCHANGED notPool

\* A thread blocked in condition.wait may wake without a notification
\* (std::condition_variable allows spurious wake-ups); it then re-acquires the mutex.
WorkerSpuriousWake(w) ==
    /\ wpc[w] = "waiting"
    /\ wpc' = [wpc EXCEPT ![w] = "lock"]
    /\ UNCHANGED <<nthreads, tasks, stop, queue_mutex, wtask, spc, scur, sres,
                   tstate, runs, ntasks>>
    /\ UNCHANGED enqOrder
    /\ UNCHANGED notPool

\* lines 408-409, as a mutant: an exception thrown by the task body leaves the
\* worker's thread function, which ends the worker.
AfterTaskEscapes(outcome) == IF outcome = "exception" THEN "exited" ELSE "lock"

\* lines 408-409: task() returns normally whatever the body did (the
\* packaged_task keeps an exception inside the future), and while (true)
\* takes the worker back to line 397.
AfterTask(outcome) == "lock"

\* line 408: task(); the stored lambda (line 427) invokes the packaged_task,
\* which runs the body and stores its value, or the exception it threw, in the
\* shared state of the future. Nothing escapes into the worker loop.
WorkerRun(w) ==
    /\ wpc[w] = "run"
    /\ \E outcome \in {"value", "exception"} :
          /\ tstate' = [tstate EXCEPT ![wtask[w]] = outcome]
          /\ wpc' = [wpc EXCEPT ![w] = AfterTask(outcome)]
    /\ runs' = [runs EXCEPT ![wtask[w]] = @ + 1]
    /\ wtask' = [wtask EXCEPT ![w] = 0]
    /\ UNCHANGED <<nthreads, tasks, stop, queue_mutex, spc, scur, sres, ntasks>>
    /\ UNCHANGED enqOrder
    /\ UNCHANGED notPool

\* ---- enqueue, lines 414-431

\* lines 419-423: the packaged_task and its future are created. Only a live
\* pool can be called, and the owner calls enqueue before it destroys the pool.
EnqueueCreate(c) ==
    /\ spc[c] = "idle"
    /\ PoolAlive
    /\ ntasks < MaxTasks
    /\ ntasks' = ntasks + 1
    /\ scur' = [scur EXCEPT ![c] = ntasks + 1]
    /\ tstate' = [tstate EXCEPT ![ntasks + 1] = "created"]
    /\ spc' = [spc EXCEPT ![c] = "enq_lock"]
    /\ UNCHANGED <<nthreads, tasks, stop, queue_mutex, wpc, wtask, sres, runs>>
    /\ UNCHANGED enqOrder
    /\ UNCHANGED notPool

\* line 425: std::unique_lock<std::mutex> lock(queue_mutex);
EnqueueLock(c) ==
    /\ spc[c] = "enq_lock"
    /\ queue_mutex = 0
    /\ queue_mutex' = c
    /\ spc' = [spc EXCEPT ![c] = "enq_crit"]
    /\ UNCHANGED <<nthreads, tasks, stop, wpc, wtask, scur, sres, tstate, runs, ntasks>>
    /\ UNCHANGED enqOrder
    /\ UNCHANGED notPool

\* line 426, as a mutant: an enqueue that never looks at stop.
EnqueueRejectsNever == FALSE

\* line 426: if (stop) throw std::runtime_error(...)
EnqueueRejects == stop

\* line 427, as a mutant: the task is put at the front of the queue.
TasksAfterEmplaceFront(q, t) == <<t>> \o q

\* line 427: tasks.emplace(...) appends the task at the back of the std::queue.
TasksAfterEmplace(q, t) == Append(q, t)

\* lines 426-428 with the mutex held. The throw unwinds through the
\* unique_lock (the mutex is released) and destroys the packaged_task and the
\* future unused; otherwise the task is appended and the block's end (line 428)
\* releases the mutex.
EnqueueCrit(c) ==
    /\ spc[c] = "enq_crit"
    /\ queue_mutex = c
    /\ queue_mutex' = 0
    /\ IF EnqueueRejects
       THEN /\ tstate' = [tstate EXCEPT ![scur[c]] = "rejected"]
            /\ UNCHANGED enqOrder
            /\ sres' = [sres EXCEPT ![c] = "runtime_error"]
            /\ scur' = [scur EXCEPT ![c] = 0]
            /\ spc' = [spc EXCEPT ![c] = "idle"]
            /\ UNCHANGED tasks
       ELSE /\ tasks' = TasksAfterEmplace(tasks, scur[c])
            /\ enqOrder' = Append(enqOrder, scur[c])
            /\ tstate' = [tstate EXCEPT ![scur[c]] = "queued"]
            /\ spc' = [spc EXCEPT ![c] = "enq_notify"]
            /\ UNCHANGED <<sres, scur>>
    /\ UNCHANGED <<nthreads, stop, wpc, wtask, runs, ntasks>>
    /\ UNCHANGED notPool

\* lines 429-430: condition.notify_one(); return res; notify_one wakes one of
\* the threads blocked in wait, if there is one.
EnqueueNotify(c) ==
    /\ spc[c] = "enq_notify"
    /\ IF Waiting = {}
       THEN UNCHANGED wpc
       ELSE \E w \in Waiting : wpc' = [wpc EXCEPT ![w] = "lock"]
    /\ sres' = [sres EXCEPT ![c] = "future"]
    /\ scur' = [scur EXCEPT ![c] = 0]
    /\ spc' = [spc EXCEPT ![c] = "idle"]
    /\ UNCHANGED <<nthreads, tasks, stop, queue_mutex, wtask, tstate, runs, ntasks>>
    /\ UNCHANGED enqOrder
    /\ UNCHANGED notPool

\* ---- ~ThreadPool, lines 433-442, run by the owning thread

\* line 436: std::unique_lock<std::mutex> lock(queue_mutex);
DtorLock ==
    /\ spc[Main] = "idle"
    /\ queue_mutex = 0
    /\ queue_mutex' = Main
    /\ spc' = [spc EXCEPT ![Main] = "d_crit"]
    /\ UNCHANGED <<nthreads, tasks, stop, wpc, wtask, scur, sres, tstate, runs, ntasks>>
    /\ UNCHANGED enqOrder
    /\ UNCHANGED notPool

\* line 437, as a mutant: the flag is flipped.
StopToggled == ~stop

\* line 437: stop = true; the only assignment to stop after the constructor.
StopSet == TRUE

\* lines 437-438: stop = true; the block's end releases the mutex.
DtorStop ==
    /\ spc[Main] = "d_crit"
    /\ queue_mutex = Main
    /\ stop' = StopSet
    /\ queue_mutex' = 0
    /\ spc' = [spc EXCEPT ![Main] = "d_notify"]
    /\ UNCHANGED <<nthreads, tasks, wpc, wtask, scur, sres, tstate, runs, ntasks>>
    /\ UNCHANGED enqOrder
    /\ UNCHANGED notPool

\* line 439: condition.notify_all();
DtorNotifyAll ==
    /\ spc[Main] = "d_notify"
    /\ wpc' = [w \in Workers |-> IF wpc[w] = "waiting" THEN "lock" ELSE wpc[w]]
    /\ spc' = [spc EXCEPT ![Main] = "d_join"]
    /\ UNCHANGED <<nthreads, tasks, stop, queue_mutex, wtask, scur, sres, tstate,
                   runs, ntasks>>
    /\ UNCHANGED enqOrder
    /\ UNCHANGED notPool

\* lines 440-441, as a mutant: the destructor does not wait for the workers.
WorkersJoinedNoWait == TRUE

\* lines 440-441: every worker.join() has returned: every worker thread has ended.
WorkersJoined == \A w \in Workers : w <= nthreads => wpc[w] = "exited"

\* lines 440-442: worker.join() for every worker: the destructor returns when
\* every worker thread has returned from its loop. A pool must not be destroyed
\* while another thread is still inside one of its member functions, so the
\* second caller is outside enqueue when the destructor returns.
DtorJoin ==
    /\ spc[Main] = "d_join"
    /\ WorkersJoined
    /\ spc[Aux] = "idle"
    /\ spc' = [spc EXCEPT ![Main] = "destroyed"]
    /\ UNCHANGED <<nthreads, tasks, stop, queue_mutex, wpc, wtask, scur, sres,
                   tstate, runs, ntasks>>
    /\ UNCHANGED enqOrder
    /\ UNCHANGED notPool

\* ---- ~ThreadPool run a second time on the same object. The class has no
\* shutdown() member: the only way to shut down twice is to run the destructor
\* again (an explicit pool.~ThreadPool() before the end of the scope). The
\* object's life has ended by then, so what follows is undefined; the steps
\* below follow the destructor's body on what the first run left behind.

\* line 436 again: the mutex is free, no thread is left to hold it.
DtorAgainLock ==
    /\ spc[Main] = "destroyed"
    /\ queue_mutex = 0
    /\ queue_mutex' = Main
    /\ spc' = [spc EXCEPT ![Main] = "again_crit"]
    /\ UNCHANGED <<nthreads, tasks, stop, wpc, wtask, scur, sres, tstate, runs, ntasks>>
    /\ UNCHANGED enqOrder
    /\ UNCHANGED notPool

\* lines 437-438 again: stop = true.
DtorAgainStop ==
    /\ spc[Main] = "again_crit"
    /\ queue_mutex = Main
    /\ stop' = StopSet
    /\ queue_mutex' = 0
    /\ spc' = [spc EXCEPT ![Main] = "again_notify"]
    /\ UNCHANGED <<nthreads, tasks, wpc, wtask, scur, sres, tstate, runs, ntasks>>
    /\ UNCHANGED enqOrder
    /\ UNCHANGED notPool

\* line 439 again: condition.notify_all(); no thread is waiting.
DtorAgainNotifyAll ==
    /\ spc[Main] = "again_notify"
    /\ wpc' = [w \in Workers |-> IF wpc[w] = "waiting" THEN "lock" ELSE wpc[w]]
    /\ spc' = [spc EXCEPT ![Main] = "again_join"]
    /\ UNCHANGED <<nthreads, tasks, stop, queue_mutex, wtask, scur, sres, tstate,
                   runs, ntasks>>
    /\ UNCHANGED enqOrder
    /\ UNCHANGED notPool

\* lines 440-441 again, as a mutant: a loop that skips threads that are not
\* joinable.
JoinAgainOutcomesGuarded(n) == {"no_error"}

\* lines 440-441 again: worker.join() on a thread that was joined before. The
\* std::thread is not joinable, so join() throws std::system_error, which
\* leaves a destructor and ends the program; as the vector's storage was
\* released by the first run, the loop may also crash on what it reads. With
\* no workers the loop body never runs.
JoinAgainOutcomes(n) == IF n = 0 THEN {"no_error"} ELSE {"system_error", "crash"}

DtorAgainJoin ==
    /\ spc[Main] = "again_join"
    /\ \E r \in JoinAgainOutcomes(nthreads) : sres' = [sres EXCEPT ![Main] = r]
    /\ spc' = [spc EXCEPT ![Main] = "destroyed_twice"]
    /\ UNCHANGED <<nthreads, tasks, stop, queue_mutex, wpc, wtask, scur, tstate,
                   runs, ntasks>>
    /\ UNCHANGED enqOrder
    /\ UNCHANGED notPool

NextPool ==
    \/ \E w \in Workers : WorkerLock(w)
    \/ \E w \in Workers : WorkerCheck(w)
    \/ \E w \in Workers : WorkerSpuriousWake(w)
    \/ \E w \in Workers : WorkerRun(w)
    \/ \E c \in Callers : EnqueueCreate(c)
    \/ \E c \in Callers : EnqueueLock(c)
    \/ \E c \in Callers : EnqueueCrit(c)
    \/ \E c \in Callers : EnqueueNotify(c)
    \/ DtorLock
    \/ DtorStop
    \/ DtorNotifyAll
    \/ DtorJoin
    \/ DtorAgainLock
    \/ DtorAgainStop
    \/ DtorAgainNotifyAll
    \/ DtorAgainJoin

\* =========================================================== ConcurrentQueue

\* Two producer threads and two consumer threads share one queue. The k-th item
\* pushed by producer p is the value <<p, k>>.
Producers == {1, 2}
Consumers == {3, 4}
NoItem == <<0, 0>>

\* The consumers blocked inside condition.wait (line 490).
PopWaiting == {c \in Consumers : cpc[c] = "pop_waiting"}

\* A consumer is inside a pop() call.
InPop(c) == cpc[c] \in {"pop_lock", "pop_check", "pop_waiting"}

InitQueue ==
    /\ cq = <<>>
    /\ cq_mutex = 0
    /\ ppc = [p \in Producers |-> "idle"]
    /\ pushed = [p \in Producers |-> 0]
    /\ cpc = [c \in Consumers |-> "idle"]
    /\ cval = [c \in Consumers |-> NoItem]
    /\ cret = [c \in Consumers |-> "none"]
    /\ popLog = <<>>

\* ---- push, lines 478-485

\* line 481: std::unique_lock<std::mutex> lock(mutex);
PushLock(p) ==
    /\ ppc[p] = "idle"
    /\ pushed[1] + pushed[2] < MaxPush
    /\ cq_mutex = 0
    /\ cq_mutex' = p
    /\ ppc' = [ppc EXCEPT ![p] = "push_crit"]
    /\ UNCHANGED <<cq, pushed, cpc, cval, cret, popLog>>
    /\ UNCHANGED notQueue

\* line 482, as a mutant: the value is put at the head of the queue.
QueuePushFront(q, v) == <<v>> \o q

\* line 482: queue.push(std::move(value)) appends at the tail.
QueuePush(q, v) == Append(q, v)

\* lines 482-483: the push, then the block's end releases the mutex.
PushCrit(p) ==
    /\ ppc[p] = "push_crit"
    /\ cq_mutex = p
    /\ cq' = QueuePush(cq, <<p, pushed[p] + 1>>)
    /\ pushed' = [pushed EXCEPT ![p] = @ + 1]
    /\ cq_mutex' = 0
    /\ ppc' = [ppc EXCEPT ![p] = "push_notify"]
    /\ UNCHANGED <<cpc, cval, cret, popLog>>
    /\ UNCHANGED notQueue

\* line 484, as a mutant: the notification reaches nobody.
PushNotifyNobody(p) ==
    /\ ppc[p] = "push_notify"
    /\ ppc' = [ppc EXCEPT ![p] = "idle"]
    /\ UNCHANGED <<cq, cq_mutex, pushed, cpc, cval, cret, popLog>>
    /\ UNCHANGED notQueue

\* line 484: condition.notify_one() wakes one consumer blocked in wait, if any.
PushNotify(p) ==
    /\ ppc[p] = "push_notify"
    /\ IF PopWaiting = {}
       THEN UNCHANGED cpc
       ELSE \E c \in PopWaiting : cpc' = [cpc EXCEPT ![c] = "pop_lock"]
    /\ ppc' = [ppc EXCEPT ![p] = "idle"]
    /\ UNCHANGED <<cq, cq_mutex, pushed, cval, cret, popLog>>
    /\ UNCHANGED notQueue

\* A producer thread ends: it pushes nothing more.
ProducerFinish(p) ==
    /\ ppc[p] = "idle"
    /\ ppc' = [ppc EXCEPT ![p] = "done"]
    /\ UNCHANGED <<cq, cq_mutex, pushed, cpc, cval, cret, popLog>>
    /\ UNCHANGED notQueue

\* ---- pop, lines 487-494

\* A consumer calls pop().
PopCall(c) ==
    /\ cpc[c] = "idle"
    /\ cpc' = [cpc EXCEPT ![c] = "pop_lock"]
    /\ UNCHANGED <<cq, cq_mutex, ppc, pushed, cval, cret, popLog>>
    /\ UNCHANGED notQueue

\* line 489: std::unique_lock<std::mutex> lock(mutex); also the re-acquisition
\* of the mutex when condition.wait wakes up.
PopLock(c) ==
    /\ cpc[c] = "pop_lock"
    /\ cq_mutex = 0
    /\ cq_mutex' = c
    /\ cpc' = [cpc EXCEPT ![c] = "pop_check"]
    /\ UNCHANGED <<cq, ppc, pushed, cval, cret, popLog>>
    /\ UNCHANGED notQueue

\* lines 491 and 500, as a mutant: the item handed out is the one at the back.
QueueBack(q) == q[Len(q)]

\* lines 491 and 500: queue.front(), the oldest item of the std::queue.
QueueFront(q) == Head(q)

\* lines 490-493, as a mutant: a pop that gives up with an end-of-stream result
\* when the queue is empty and every producer has finished.
PopCheckEndOfStream(c) ==
    /\ cpc[c] = "pop_check"
    /\ cq_mutex = c
    /\ cq_mutex' = 0
    /\ IF cq = <<>> /\ \A p \in Producers : ppc[p] = "done"
       THEN /\ cpc' = [cpc EXCEPT ![c] = "idle"]
            /\ cret' = [cret EXCEPT ![c] = "end_of_stream"]
            /\ UNCHANGED <<cq, cval, popLog>>
       ELSE IF cq = <<>>
       THEN /\ cpc' = [cpc EXCEPT ![c] = "pop_waiting"]
            /\ UNCHANGED <<cq, cval, cret, popLog>>
       ELSE /\ cval' = [cval EXCEPT ![c] = QueueFront(cq)]
            /\ popLog' = Append(popLog, QueueFront(cq))
            /\ cq' = Tail(cq)
            /\ cret' = [cret EXCEPT ![c] = "item"]
            /\ cpc' = [cpc EXCEPT ![c] = "idle"]
    /\ UNCHANGED <<ppc, pushed>>
    /\ UNCHANGED notQueue

\* lines 490-493 with the mutex held: wait's predicate !queue.empty() is
\* evaluated; when it is false the consumer releases the mutex and blocks;
\* when it is true the front item is moved out and returned, and the
\* unique_lock's destructor releases the mutex.
PopCheck(c) ==
    /\ cpc[c] = "pop_check"
    /\ cq_mutex = c
    /\ cq_mutex' = 0
    /\ IF cq = <<>>
       THEN /\ cpc' = [cpc EXCEPT ![c] = "pop_waiting"]
            /\ UNCHANGED <<cq, cval, cret, popLog>>
       ELSE /\ cval' = [cval EXCEPT ![c] = QueueFront(cq)]
            /\ popLog' = Append(popLog, QueueFront(cq))
            /\ cq' = Tail(cq)
            /\ cret' = [cret EXCEPT ![c] = "item"]
            /\ cpc' = [cpc EXCEPT ![c] = "idle"]
    /\ UNCHANGED <<ppc, pushed>>
    /\ UNCHANGED notQueue

\* A consumer blocked in condition.wait may wake without a notification.
PopSpuriousWake(c) ==
    /\ cpc[c] = "pop_waiting"
    /\ cpc' = [cpc EXCEPT ![c] = "pop_lock"]
    /\ UNCHANGED <<cq, cq_mutex, ppc, pushed, cval, cret, popLog>>
    /\ UNCHANGED notQueue

\* ---- try_pop, lines 496-503

\* line 498: std::unique_lock<std::mutex> lock(mutex);
TryPopLock(c) ==
    /\ cpc[c] = "idle"
    /\ cq_mutex = 0
    /\ cq_mutex' = c
    /\ cpc' = [cpc EXCEPT ![c] = "try_check"]
    /\ UNCHANGED <<cq, ppc, pushed, cval, cret, popLog>>
    /\ UNCHANGED notQueue

\* lines 499-502, as a mutant: a try_pop that waits on the condition variable
\* when the queue is empty, as pop does.
TryPopCheckWaiting(c) ==
    /\ cpc[c] = "try_check"
    /\ cq_mutex = c
    /\ cq_mutex' = 0
    /\ IF cq = <<>>
       THEN /\ cpc' = [cpc EXCEPT ![c] = "pop_waiting"]
            /\ UNCHANGED <<cq, cval, cret, popLog>>
       ELSE /\ cval' = [cval EXCEPT ![c] = QueueFront(cq)]
            /\ popLog' = Append(popLog, QueueFront(cq))
            /\ cq' = Tail(cq)
            /\ cret' = [cret EXCEPT ![c] = "true"]
            /\ cpc' = [cpc EXCEPT ![c] = "idle"]
    /\ UNCHANGED <<ppc, pushed>>
    /\ UNCHANGED notQueue

\* lines 499-502 with the mutex held: false on an empty queue, else the front
\* item is moved into `value` and removed; returning releases the mutex.
TryPopCheck(c) ==
    /\ cpc[c] = "try_check"
    /\ cq_mutex = c
    /\ cq_mutex' = 0
    /\ cpc' = [cpc EXCEPT ![c] = "idle"]
    /\ IF cq = <<>>
       THEN /\ cret' = [cret EXCEPT ![c] = "false"]
            /\ UNCHANGED <<cq, cval, popLog>>
       ELSE /\ cval' = [cval EXCEPT ![c] = QueueFront(cq)]
            /\ popLog' = Append(popLog, QueueFront(cq))
            /\ cq' = Tail(cq)
            /\ cret' = [cret EXCEPT ![c] = "true"]
    /\ UNCHANGED <<ppc, pushed>>
    /\ UNCHANGED notQueue

\* The steps a producer takes inside a push it has begun.
ProducerStep(p) == PushCrit(p) \/ PushNotify(p)

\* The steps a consumer takes inside a call it has made.
ConsumerStep(c) == PopLock(c) \/ PopCheck(c) \/ TryPopCheck(c)

NextQueue ==
    \/ \E p \in Producers : PushLock(p)
    \/ \E p \in Producers : PushCrit(p)
    \/ \E p \in Producers : PushNotify(p)
    \/ \E p \in Producers : ProducerFinish(p)
    \/ \E c \in Consumers : PopCall(c)
    \/ \E c \in Consumers : PopLock(c)
    \/ \E c \in Consumers : PopCheck(c)
    \/ \E c \in Consumers : PopSpuriousWake(c)
    \/ \E c \in Consumers : TryPopLock(c)
    \/ \E c \in Consumers : TryPopCheck(c)

\* =============================================================== RateLimiter

\* line 528: the interval, 1000 milliseconds.
IntervalMs == 1000

\* The rates the limiter is constructed with: min_delay is 1000, 500, 333, 1
\* and 0 milliseconds.
CallRates == {1, 2, 3, 1000, 2000}

RateCallers == {1, 2}

\* line 528: min_delay(std::chrono::milliseconds(1000 / calls_per_second)),
\* an int division.
MinDelay(cps) == IntervalMs \div cps

\* lines 526-528: last_call is the clock's reading at construction.
InitRate ==
    /\ calls_per_second \in CallRates
    /\ min_delay = MinDelay(calls_per_second)
    /\ clock = 0
    /\ last_call = 0
    /\ rl_mutex = 0
    /\ rpc = [c \in RateCallers |-> "idle"]
    /\ rnow = [c \in RateCallers |-> 0]
    /\ relapsed = [c \in RateCallers |-> 0]
    /\ rslept = [c \in RateCallers |-> FALSE]
    /\ grants = <<>>
    /\ waited = <<>>

\* The time that may have passed, in ticks, when a caller reads the clock at
\* line 533: none, less than a millisecond, just under min_delay, min_delay.
NowDeltas ==
    {d \in {0, 1, min_delay * TicksPerMs - 1, min_delay * TicksPerMs} : d >= 0}

\* The time that may have passed when the clock is read again at line 541.
StampDeltas == {0, 1}

\* A thread calls acquire().
AcquireCall(c) ==
    /\ rpc[c] = "idle"
    /\ Len(grants) + Cardinality({x \in RateCallers : rpc[x] # "idle"}) < MaxGrants
    /\ rpc' = [rpc EXCEPT ![c] = "lock"]
    /\ rslept' = [rslept EXCEPT ![c] = FALSE]
    /\ UNCHANGED <<calls_per_second, min_delay, last_call, clock, rl_mutex, rnow,
                   relapsed, grants, waited>>
    /\ UNCHANGED notRate

\* line 532: std::unique_lock<std::mutex> lock(mutex);
AcquireLock(c) ==
    /\ rpc[c] = "lock"
    /\ rl_mutex = 0
    /\ rl_mutex' = c
    /\ rpc' = [rpc EXCEPT ![c] = "now"]
    /\ UNCHANGED <<calls_per_second, min_delay, last_call, clock, rnow, relapsed,
                   rslept, grants, waited>>
    /\ UNCHANGED notRate

\* line 534, as a mutant: the elapsed time rounded up to whole milliseconds.
ElapsedRoundedUp(now, last) == (now - last + TicksPerMs - 1) \div TicksPerMs

\* line 534: duration_cast<milliseconds>(now - last_call) truncates.
Elapsed(now, last) == (now - last) \div TicksPerMs

\* lines 532-539, as a mutant: the mutex is released for the time of the sleep.
MutexWhileSleepingFree(c) == 0

\* lines 532-539: sleep_for is called inside the scope of the unique_lock of
\* line 532, so the sleeping thread keeps the mutex.
MutexWhileSleeping(c) == c

\* lines 533-536: now and elapsed are computed and elapsed < min_delay is tested.
AcquireNow(c) ==
    /\ rpc[c] = "now"
    /\ rl_mutex = c
    /\ \E d \in NowDeltas :
          /\ clock' = clock + d
          /\ rnow' = [rnow EXCEPT ![c] = clock + d]
          /\ relapsed' = [relapsed EXCEPT ![c] = Elapsed(clock + d, last_call)]
          /\ rpc' = [rpc EXCEPT ![c] =
                        IF Elapsed(clock + d, last_call) < min_delay
                        THEN "sleep" ELSE "stamp"]
          /\ rl_mutex' = IF Elapsed(clock + d, last_call) < min_delay
                         THEN MutexWhileSleeping(c) ELSE c
    /\ UNCHANGED <<calls_per_second, min_delay, last_call, rslept, grants, waited>>
    /\ UNCHANGED notRate

\* line 538: std::this_thread::sleep_for(min_delay - elapsed), with the mutex
\* held. The thread is blocked for at least that long; what it oversleeps is
\* part of the time that passes before the clock is read at line 541.
AcquireSleep(c) ==
    /\ rpc[c] = "sleep"
    /\ rl_mutex = c
    /\ clock' = clock + (min_delay - relapsed[c]) * TicksPerMs
    /\ rslept' = [rslept EXCEPT ![c] = TRUE]
    /\ rpc' = [rpc EXCEPT ![c] = "stamp"]
    /\ UNCHANGED <<calls_per_second, min_delay, last_call, rl_mutex, rnow,
                   relapsed, grants, waited>>
    /\ UNCHANGED notRate

\* lines 541-542: last_call = steady_clock::now(); returning releases the mutex.
AcquireStamp(c) ==
    /\ rpc[c] = "stamp"
    /\ rl_mutex = c
    /\ \E d \in StampDeltas :
          /\ clock' = clock + d
          /\ last_call' = clock + d
          /\ grants' = Append(grants, clock + d)
    /\ waited' = Append(waited, rslept[c])
    /\ rl_mutex' = 0
    /\ rpc' = [rpc EXCEPT ![c] = "idle"]
    /\ UNCHANGED <<calls_per_second, min_delay, rnow, relapsed, rslept>>
    /\ UNCHANGED notRate

NextRate ==
    \/ \E c \in RateCallers : AcquireCall(c)
    \/ \E c \in RateCallers : AcquireLock(c)
    \/ \E c \in RateCallers : AcquireNow(c)
    \/ \E c \in RateCallers : AcquireSleep(c)
    \/ \E c \in RateCallers : AcquireStamp(c)

\* ================================================================== LRUCache

\* The keys put into the cache: one more than the largest capacity.
Keys == 1..(MaxCap + 1)

\* The nodes of the std::list. A list iterator is the node it points at: it
\* stays valid until that node is erased. One node more than the capacity is
\* allocated while put runs (line 592, before the eviction of lines 595-601).
Nodes == 1..(MaxCap + 1)

\* The record of a call: found is what get or contains returned (for put:
\* whether the key had an entry), size what size() returned, evicted the key
\* put erased from the map at line 599 (0: none).
Call(op, k, found, n, ev) == [op |-> op, key |-> k, found |-> found, size |-> n, evicted |-> ev]

\* The history is kept for the first capacity + 2 put and get calls; after
\* that it only says that more calls were made.
HistOverflow == <<[op |-> "more", key |-> 0]>>

HistAppend(h, op, k) ==
    IF h = HistOverflow \/ Len(h) >= capacity + 2
    THEN HistOverflow
    ELSE Append(h, [op |-> op, key |-> k])

\* The threads that call put and get on one cache at the same time.
LruThreads == {1, 2}

\* line 581: LRUCache(size_t capacity) : capacity(capacity) {} - any size_t,
\* zero included; the list and the map start empty.
InitLRU ==
    /\ capacity \in 0..MaxCap
    /\ items = <<>>
    /\ nodeKey = [n \in Nodes |-> 0]
    /\ cache_map = [k \in Keys |-> 0]
    /\ lret = Call("none", 0, FALSE, 0, 0)
    /\ lhist = <<>>
    /\ tpc = [t \in LruThreads |-> "idle"]
    /\ tkey = [t \in LruThreads |-> 0]
    /\ tit = [t \in LruThreads |-> 0]

\* cache_map.size()
MapSize(m) == Cardinality({k \in Keys : m[k] # 0})

\* The keys of the list, front (most recently used) first.
ItemKeys == [i \in 1..Len(items) |-> nodeKey[items[i]]]

\* The node a push_front allocates: a node not in use (the lowest such one).
NewNode(nk) == CHOOSE n \in Nodes : nk[n] = 0 /\ \A m \in Nodes : nk[m] = 0 => n <= m

\* line 588, as a mutant: the key's old node stays in the list.
ListEraseNothing(its, n) == its

\* line 588: items.erase(it->second) unlinks the node the iterator points at.
ListErase(its, n) == SelectSeq(its, LAMBDA x : x # n)

\* line 609, as a mutant: get leaves the list's order alone.
ListSpliceNothing(its, n) == its

\* line 609: items.splice(items.begin(), items, it->second) moves the node to
\* the front; the iterator stays valid.
ListSplice(its, n) == <<n>> \o SelectSeq(its, LAMBDA x : x # n)

\* line 592, as a mutant: the new node is linked at the back.
ListPushBack(its, n) == Append(its, n)

\* line 592: items.push_front(key) links the new node at the front.
ListPushFront(its, n) == <<n>> \o its

\* line 595, as a mutant: the eviction starts one entry too late.
OverCapacityLate(n, cap) == n > cap + 1

\* line 595: if (cache_map.size() > capacity)
OverCapacity(n, cap) == n > cap

\* lines 597-598, as a mutant: the victim is the node at the front.
VictimFront(its) == its[1]

\* lines 597-598: last = items.end(); last--; the node at the back.
Victim(its) == its[Len(its)]

\* lines 583-602: put.
LRUPut(k) ==
    LET it == cache_map[k]
        \* lines 585-590: an existing entry and its node are erased
        items1 == IF it # 0 THEN ListErase(items, it) ELSE items
        nodeKey1 == IF it # 0 THEN [nodeKey EXCEPT ![it] = 0] ELSE nodeKey
        map1 == IF it # 0 THEN [cache_map EXCEPT ![k] = 0] ELSE cache_map
        \* lines 592-593: items.push_front(key); cache_map[key] = items.begin()
        n == NewNode(nodeKey1)
        items2 == ListPushFront(items1, n)
        nodeKey2 == [nodeKey1 EXCEPT ![n] = k]
        map2 == [map1 EXCEPT ![k] = n]
        \* lines 595-601: cache_map.erase(*last); items.pop_back()
        over == OverCapacity(MapSize(map2), capacity)
        victim == nodeKey2[Victim(items2)]
        back == items2[Len(items2)]
    IN  /\ items' = IF over THEN SubSeq(items2, 1, Len(items2) - 1) ELSE items2
        /\ nodeKey' = IF over THEN [nodeKey2 EXCEPT ![back] = 0] ELSE nodeKey2
        /\ cache_map' = IF over THEN [map2 EXCEPT ![victim] = 0] ELSE map2
        /\ lret' = Call("put", k, it # 0, 0, IF over THEN victim ELSE 0)
        /\ lhist' = HistAppend(lhist, "put", k)
        /\ UNCHANGED capacity
        /\ UNCHANGED notLRU

\* lines 604-611: get.
LRUGet(k) ==
    LET it == cache_map[k]
    IN  /\ IF it = 0
           THEN /\ lret' = Call("get", k, FALSE, 0, 0)
                /\ UNCHANGED items
           ELSE /\ items' = ListSplice(items, it)
                /\ lret' = Call("get", k, TRUE, 0, 0)
        /\ lhist' = HistAppend(lhist, "get", k)
        /\ UNCHANGED <<capacity, nodeKey, cache_map>>
        /\ UNCHANGED notLRU

\* line 615: cache_map.find(key) != cache_map.end()
Contains(k) == cache_map[k] # 0

\* lines 613-616, as a mutant: a contains that promotes the key it finds.
LRUContainsPromoting(k) ==
    /\ lret' = Call("contains", k, Contains(k), 0, 0)
    /\ items' = IF Contains(k) THEN ListSplice(items, cache_map[k]) ELSE items
    /\ UNCHANGED <<capacity, nodeKey, cache_map, lhist>>
    /\ UNCHANGED notLRU

\* lines 613-616: contains, a const member.
LRUContains(k) ==
    /\ lret' = Call("contains", k, Contains(k), 0, 0)
    /\ UNCHANGED <<capacity, items, nodeKey, cache_map, lhist>>
    /\ UNCHANGED notLRU

\* line 618: size_t size() const { return items.size(); }
LRUSize ==
    /\ lret' = Call("size", 0, FALSE, Len(items), 0)
    /\ UNCHANGED <<capacity, items, nodeKey, cache_map, lhist>>
    /\ UNCHANGED notLRU

NextLRU ==
    \/ \E k \in Keys : LRUPut(k)
    \/ \E k \in Keys : LRUGet(k)
    \/ \E k \in Keys : LRUContains(k)
    \/ LRUSize

\* ---- put and get called by two threads at once. LRUCache has no mutex
\* (lines 576-578 are its only members), so the statements of two calls
\* interleave. Each step below is one statement of the source. A statement
\* that uses an iterator another thread has invalidated is undefined: it is
\* modelled by its two plain outcomes, the thread crashes or the statement
\* acts on the stale node as if it were still valid, and the model follows
\* the program no further than that statement.
DanglingOutcomes == {"crash", "stale"}

\* What a thread is left in after each of these outcomes.
AfterDangling(outcome) == IF outcome = "crash" THEN "crashed" ELSE "undefined"

\* No statement with undefined behaviour has been executed.
LruDefined == \A t \in LruThreads : tpc[t] \notin {"crashed", "undefined"}

InList(its, n) == \E i \in 1..Len(its) : its[i] = n

\* line 585 and the test of line 586.
ThreadPutFind(t, k) ==
    /\ LruDefined
    /\ tpc[t] = "idle"
    /\ tkey' = [tkey EXCEPT ![t] = k]
    /\ tit' = [tit EXCEPT ![t] = cache_map[k]]
    /\ tpc' = [tpc EXCEPT ![t] = IF cache_map[k] # 0 THEN "put_erase" ELSE "put_push"]
    /\ UNCHANGED <<capacity, items, nodeKey, cache_map>>
    /\ UNCHANGED notLRUThreads

\* lines 588-589: items.erase(it->second); cache_map.erase(it); `it` is not
\* used after them.
ThreadPutErase(t) ==
    /\ LruDefined
    /\ tpc[t] = "put_erase"
    /\ \E outcome \in IF cache_map[tkey[t]] = tit[t] /\ InList(items, tit[t])
                       THEN {"valid"} ELSE DanglingOutcomes :
          /\ tpc' = [tpc EXCEPT ![t] =
                        IF outcome = "valid" THEN "put_push" ELSE AfterDangling(outcome)]
          /\ IF outcome = "crash"
             THEN UNCHANGED <<items, nodeKey, cache_map>>
             ELSE /\ items' = ListErase(items, tit[t])
                  /\ nodeKey' = [nodeKey EXCEPT ![tit[t]] = 0]
                  /\ cache_map' = [cache_map EXCEPT ![tkey[t]] = 0]
    /\ tit' = [tit EXCEPT ![t] = 0]
    /\ UNCHANGED <<capacity, tkey>>
    /\ UNCHANGED notLRUThreads

\* The list nodes that are free, and the one push_front allocates.
FreeNodes == {n \in Nodes : nodeKey[n] = 0 /\ ~InList(items, n)}

\* line 592: items.push_front(key); the model has MaxCap + 1 nodes, a thread
\* that finds none free waits for one.
ThreadPutPush(t) ==
    /\ LruDefined
    /\ tpc[t] = "put_push"
    /\ FreeNodes # {}
    /\ LET n == CHOOSE n \in FreeNodes : \A m \in FreeNodes : n <= m
       IN  /\ items' = ListPushFront(items, n)
           /\ nodeKey' = [nodeKey EXCEPT ![n] = tkey[t]]
    /\ tpc' = [tpc EXCEPT ![t] = "put_map"]
    /\ UNCHANGED <<capacity, cache_map, tkey, tit>>
    /\ UNCHANGED notLRUThreads

\* line 593: cache_map[key] = items.begin(); begin() is read now: it is
\* another thread's node when that thread pushed in between, and end() when
\* the list has been emptied in between (the entry then points at no node,
\* which the model does not tell from no entry).
ThreadPutMap(t) ==
    /\ LruDefined
    /\ tpc[t] = "put_map"
    /\ cache_map' = [cache_map EXCEPT ![tkey[t]] = IF items = <<>> THEN 0 ELSE items[1]]
    /\ tpc' = [tpc EXCEPT ![t] = "put_evict"]
    /\ tkey' = [tkey EXCEPT ![t] = 0]
    /\ UNCHANGED <<capacity, items, nodeKey, tit>>
    /\ UNCHANGED notLRUThreads

\* lines 595-601: the size test and the eviction of the node at the back;
\* on an empty list last-- is undefined.
ThreadPutEvict(t) ==
    /\ LruDefined
    /\ tpc[t] = "put_evict"
    /\ IF ~OverCapacity(MapSize(cache_map), capacity)
       THEN /\ tpc' = [tpc EXCEPT ![t] = "idle"]
            /\ UNCHANGED <<items, nodeKey, cache_map>>
       ELSE \E outcome \in IF items # <<>> THEN {"valid"} ELSE DanglingOutcomes :
              IF outcome = "valid"
              THEN LET back == Victim(items)
                       victim == nodeKey[back]
                   IN  /\ cache_map' = [cache_map EXCEPT ![victim] = 0]
                       /\ items' = SubSeq(items, 1, Len(items) - 1)
                       /\ nodeKey' = [nodeKey EXCEPT ![back] = 0]
                       /\ tpc' = [tpc EXCEPT ![t] = "idle"]
              ELSE /\ tpc' = [tpc EXCEPT ![t] = AfterDangling(outcome)]
                   /\ UNCHANGED <<items, nodeKey, cache_map>>
    /\ UNCHANGED <<capacity, tkey, tit>>
    /\ UNCHANGED notLRUThreads

\* lines 606-607: find, and return false when the key is absent.
ThreadGetFind(t, k) ==
    /\ LruDefined
    /\ tpc[t] = "idle"
    /\ IF cache_map[k] # 0
       THEN /\ tpc' = [tpc EXCEPT ![t] = "get_splice"]
            /\ tkey' = [tkey EXCEPT ![t] = k]
            /\ tit' = [tit EXCEPT ![t] = cache_map[k]]
       ELSE UNCHANGED <<tpc, tkey, tit>>
    /\ UNCHANGED <<capacity, items, nodeKey, cache_map>>
    /\ UNCHANGED notLRUThreads

\* lines 609-610: items.splice(items.begin(), items, it->second); return true;
ThreadGetSplice(t) ==
    /\ LruDefined
    /\ tpc[t] = "get_splice"
    /\ \E outcome \in IF cache_map[tkey[t]] = tit[t] /\ InList(items, tit[t])
                       THEN {"valid"} ELSE DanglingOutcomes :
          /\ tpc' = [tpc EXCEPT ![t] =
                        IF outcome = "valid" THEN "idle" ELSE AfterDangling(outcome)]
          /\ items' = IF outcome = "crash" THEN items ELSE ListSplice(items, tit[t])
    /\ tkey' = [tkey EXCEPT ![t] = 0]
    /\ tit' = [tit EXCEPT ![t] = 0]
    /\ UNCHANGED <<capacity, nodeKey, cache_map>>
    /\ UNCHANGED notLRUThreads

NextLRUThreads ==
    \/ \E t \in LruThreads, k \in Keys : ThreadPutFind(t, k)
    \/ \E t \in LruThreads : ThreadPutErase(t)
    \/ \E t \in LruThreads : ThreadPutPush(t)
    \/ \E t \in LruThreads : ThreadPutMap(t)
    \/ \E t \in LruThreads : ThreadPutEvict(t)
    \/ \E t \in LruThreads, k \in Keys : ThreadGetFind(t, k)
    \/ \E t \in LruThreads : ThreadGetSplice(t)

\* ============================================================ specifications

\* The pool with no thread inside it, as it is in the other components' runs.
IdlePool == InitPool /\ nthreads = 0

\* The cache with no call made, as it is in the other components' runs.
IdleLRU == InitLRU /\ capacity = 1

\* The limiter with no caller, as it is in the other components' runs.
IdleRate == InitRate /\ calls_per_second = 1

\* Each specification starts its own component as constructed and the others idle.
InitSpecPool == InitPool /\ InitQueue /\ IdleRate /\ IdleLRU

InitSpecQueue == IdlePool /\ InitQueue /\ IdleRate /\ IdleLRU

InitSpecRate == IdlePool /\ InitQueue /\ InitRate /\ IdleLRU

InitSpecLRU == IdlePool /\ InitQueue /\ IdleRate /\ InitLRU

SpecPool == InitSpecPool /\ [][NextPool]_vars

SpecQueue == InitSpecQueue /\ [][NextQueue]_vars

SpecRate == InitSpecRate /\ [][NextRate]_vars

SpecLRU == InitSpecLRU /\ [][NextLRU]_vars

\* One cache called by two threads at once.
SpecLRUThreads == InitSpecLRU /\ [][NextLRUThreads]_vars

\* Scheduling: a thread that can again and again take a step of the call it is
\* in eventually takes it (so no thread is starved of the mutex; std::mutex
\* promises less, which only adds behaviours). Whether a thread makes a call
\* at all, and a spurious wake-up, are not forced.
FairSpecQueue ==
    /\ SpecQueue
    /\ \A p \in Producers : SF_vars(ProducerStep(p))
    /\ \A c \in Consumers : SF_vars(ConsumerStep(c))

\* ---- claims about the pool

\* The tasks whose enqueue call appended them to the queue.
Accepted == {t \in TaskIds : tstate[t] \in {"queued", "running", "value", "exception"}}

\* The tasks whose future holds a value or an exception.
Resolved == {t \in TaskIds : tstate[t] \in {"value", "exception"}}

\* C1 (pool completeness): for a pool of N >= 1 workers, when ~ThreadPool has
\* returned, every task that an enqueue call appended has been executed (once)
\* and its future is resolved: the number of resolved futures equals the number
\* K of accepted tasks, and none is left in the queue.
PoolCompleteness ==
    (spc[Main] = "destroyed" /\ nthreads >= 1) =>
        /\ Resolved = Accepted
        /\ Cardinality(Resolved) = Cardinality(Accepted)
        /\ tasks = <<>>
        /\ \A t \in Accepted : runs[t] = 1

\* C1's case: the destructor of a pool with the most workers has returned after
\* the most enqueue calls were all accepted.
PoolCompletenessWitness ==
    /\ spc[Main] = "destroyed"
    /\ nthreads = MaxWorkers
    /\ Cardinality(Resolved) = MaxTasks

\* C2 (post-shutdown rejection): an enqueue call that holds the queue lock while
\* stop is set ends with the runtime_error, leaves the task queue and the
\* executed-task counts as they were, and its task is never queued or executed.
PostShutdownRejection ==
    [][ /\ \A c \in Callers :
              (spc[c] = "enq_crit" /\ stop /\ spc'[c] # "enq_crit") =>
                  /\ tasks' = tasks
                  /\ runs' = runs
                  /\ sres'[c] = "runtime_error"
                  /\ tstate'[scur[c]] = "rejected"
        /\ \A t \in TaskIds :
              tstate[t] = "rejected" =>
                  /\ tstate'[t] = "rejected"
                  /\ runs'[t] = 0
                  /\ \A i \in 1..Len(tasks') : tasks'[i] # t
      ]_vars

\* C2's case: an enqueue call was rejected while the destructor was running.
PostShutdownRejectionWitness ==
    /\ stop
    /\ spc[Main] \in {"d_notify", "d_join"}
    /\ sres[Aux] = "runtime_error"
    /\ \E t \in TaskIds : tstate[t] = "rejected"

\* C11 (task failure containment): when a task body throws, the worker that
\* ran it stays alive and goes back to the queue, the exception is what the
\* task's future holds, and the tasks after it still complete: when the
\* destructor of a pool with N >= 1 workers returns, every accepted task is
\* resolved.
TaskFailureContained ==
    [][ /\ \A w \in Workers :
              (wpc[w] = "run" /\ wpc'[w] # "run" /\ tstate'[wtask[w]] = "exception") =>
                  /\ wpc'[w] = "lock"
                  /\ runs'[wtask[w]] = runs[wtask[w]] + 1
        /\ \A t \in TaskIds : tstate[t] = "exception" => tstate'[t] = "exception"
        /\ (spc'[Main] = "destroyed" /\ nthreads >= 1) => Resolved' = Accepted'
      ]_vars

\* C11's case: the only worker of a pool ran a task that threw and then a
\* later task to its end.
TaskFailureContainedWitness ==
    /\ nthreads = 1
    /\ tstate[1] = "exception"
    /\ tstate[2] = "value"
    /\ wpc[1] # "exited"

\* C12 (exactly-once execution): a task's body is invoked at most once, and
\* exactly once when its future is resolved; a task is never in the queue
\* twice, never in the queue and with a worker, never with two workers; a
\* resolved future keeps its result.
ExactlyOnce ==
    [][ /\ \A t \in TaskIds :
              /\ runs'[t] <= 1
              /\ (t \in Resolved') <=> (runs'[t] = 1)
              /\ (t \in Resolved) => tstate'[t] = tstate[t]
              /\ Cardinality({i \in 1..Len(tasks') : tasks'[i] = t})
                    + Cardinality({w \in Workers : wtask'[w] = t}) <= 1
              /\ (tstate'[t] = "running") <=> (\E w \in Workers : wtask'[w] = t)
      ]_vars

\* C12's case: two workers each hold a task of their own while a third task
\* has been executed.
ExactlyOnceWitness ==
    /\ nthreads = 2
    /\ wtask[1] # 0
    /\ wtask[2] # 0
    /\ wtask[1] # wtask[2]
    /\ \E t \in TaskIds : runs[t] = 1

\* C13 (graceful shutdown): a worker ends only in a step taken with stop set
\* and the queue empty; a running task is never cut short (its next state is
\* its result); and when the destructor returns every worker has ended, so for
\* N >= 1 no accepted task is left queued or running.
GracefulShutdown ==
    [][ /\ \A w \in Workers :
              (wpc[w] # "exited" /\ wpc'[w] = "exited") => (stop /\ tasks = <<>>)
        /\ \A t \in TaskIds :
              tstate[t] = "running" => tstate'[t] \in {"running", "value", "exception"}
        /\ spc'[Main] = "destroyed" =>
              /\ \A w \in Workers : w <= nthreads => wpc'[w] = "exited"
              /\ nthreads >= 1 => (tasks' = <<>> /\ Resolved' = Accepted')
      ]_vars

\* C13's case: the destructor is waiting in join while a worker runs a task
\* and another task is still queued.
GracefulShutdownWitness ==
    /\ spc[Main] = "d_join"
    /\ stop
    /\ tasks # <<>>
    /\ \E w \in Workers : wpc[w] = "run"

ZeroSizeRejected ==
    nthreads = 0 => \A c \in Callers : sres[c] # "future"

\* ---- claims about the queue

\* C3 (FIFO): when a single producer has pushed, the i-th item removed from the
\* queue, by pop or by try_pop, is the i-th item that producer pushed.
FifoSingleProducer ==
    \A p \in Producers :
        (\A q \in Producers \ {p} : pushed[q] = 0) =>
            \A i \in 1..Len(popLog) : popLog[i] = <<p, i>>

\* C3's case: one producer pushed the most items and all of them were popped,
\* some by pop and some by try_pop.
FifoSingleProducerWitness ==
    /\ pushed[1] = MaxPush
    /\ pushed[2] = 0
    /\ Len(popLog) = MaxPush
    /\ cret[3] = "item"
    /\ cret[4] = "true"

\* The nearest this queue comes to being closed (it has no close()): every
\* producer thread has ended, so nothing will be pushed again.
QueueClosed == \A p \in Producers : ppc[p] = "done"

HistKnown == lhist # HistOverflow

\* Whether the history is exactly C+1 puts of distinct keys.
DistinctPuts ==
    /\ HistKnown
    /\ Len(lhist) = capacity + 1
    /\ \A i \in 1..Len(lhist) : lhist[i].op = "put"
    /\ \A i, j \in 1..Len(lhist) : i # j => lhist[i].key # lhist[j].key

\* C5 (LRU eviction): for a capacity C >= 1, after put(k1), ..., put(k(C+1))
\* with distinct keys on a new cache and no get, contains(k1) is false and
\* contains(ki) is true for i in 2..C+1.
LruEviction ==
    (capacity >= 1 /\ DistinctPuts) =>
        /\ ~Contains(lhist[1].key)
        /\ \A i \in 2..(capacity + 1) : Contains(lhist[i].key)

\* C5's case: C+1 distinct keys were put into a cache of the largest capacity.
LruEvictionWitness ==
    /\ capacity = MaxCap
    /\ DistinctPuts
    /\ lret.evicted = lhist[1].key

\* The index of the last call on key k before the latest call (0: none).
LastTouch(k) ==
    LET S == {i \in 1..(Len(lhist) - 1) : lhist[i].key = k}
    IN  IF S = {} THEN 0 ELSE CHOOSE i \in S : \A j \in S : j <= i

\* The example of the promotion property: put(a), put(b), get(a), put(c).
PromotionExample ==
    <<[op |-> "put", key |-> 1], [op |-> "put", key |-> 2],
      [op |-> "get", key |-> 1], [op |-> "put", key |-> 3]>>

\* C6 (LRU promotion): get(key) returns true exactly when key has an entry, and
\* then key is at the most-recently-used position; the key a put evicts (C >= 1)
\* was last touched, by put or get, before every other key that stays; with
\* C = 2, put(a), put(b), get(a), put(c) leaves a and c and not b.
LruPromotion ==
    /\ lret.op = "get" =>
          /\ lret.found = Contains(lret.key)
          /\ lret.found => (items # <<>> /\ ItemKeys[1] = lret.key)
    /\ (capacity >= 1 /\ HistKnown /\ lret.op = "put" /\ lret.evicted # 0) =>
          \A k \in Keys \ {lret.key} :
              Contains(k) => LastTouch(lret.evicted) < LastTouch(k)
    /\ (capacity = 2 /\ lhist = PromotionExample) =>
          (~Contains(2) /\ Contains(1) /\ Contains(3))

\* C6's case: the example's four calls on a cache of capacity 2.
LruPromotionWitness ==
    /\ capacity = 2
    /\ lhist = PromotionExample
    /\ lret.op = "put"
    /\ lret.evicted = 2

\* C7 (LRU capacity bound): size() <= C after every call.
LruCapacityBound ==
    /\ Len(items) <= capacity
    /\ lret.op = "size" => lret.size <= capacity

\* C7's case: a put into a full cache of the largest capacity evicted a key.
LruCapacityBoundWitness ==
    /\ capacity = MaxCap
    /\ Len(items) = capacity
    /\ lret.op = "put"
    /\ lret.evicted # 0

\* C8 (LRU structural consistency): the map's keys are the list's keys, no key
\* (and no node) is in the list twice, and each map entry points at a node of
\* the list that holds the entry's key.
LruStructure ==
    /\ {k \in Keys : cache_map[k] # 0} = {ItemKeys[i] : i \in 1..Len(items)}
    /\ \A i, j \in 1..Len(items) :
          i # j => (items[i] # items[j] /\ ItemKeys[i] # ItemKeys[j])
    /\ \A k \in Keys :
          cache_map[k] # 0 =>
              /\ \E i \in 1..Len(items) : items[i] = cache_map[k]
              /\ nodeKey[cache_map[k]] = k

\* C8's case: after many calls, a get promoted a key of a full cache that a
\* put had re-inserted or a get had moved before.
LruStructureWitness ==
    /\ lhist = HistOverflow
    /\ capacity = MaxCap
    /\ Len(items) = MaxCap
    /\ lret.op = "get"
    /\ lret.found
    /\ ItemKeys[1] = lret.key

\* ---- claims about the rate limiter

\* C9 (rate-limiter spacing): two consecutive grants (values written to
\* last_call) are at least min_delay apart, whichever callers made them; with
\* 2 calls per second the first and the third grant are at least 1000 ms apart.
RateSpacing ==
    /\ \A i \in 1..(Len(grants) - 1) :
          grants[i + 1] - grants[i] >= min_delay * TicksPerMs
    /\ (calls_per_second = 2 /\ Len(grants) >= 3) =>
          grants[3] - grants[1] >= IntervalMs * TicksPerMs

\* C9's case: three grants at 2 calls per second, the third exactly 1000 ms
\* after the first, the second after a sleep.
RateSpacingWitness ==
    /\ calls_per_second = 2
    /\ Len(grants) = 3
    /\ grants[3] - grants[1] = IntervalMs * TicksPerMs
    /\ waited[2]

\* C10 as stated: the first acquire() after construction does not sleep.
FirstAcquireImmediate ==
    /\ Len(waited) >= 1 => ~waited[1]
    /\ \A c \in RateCallers : rpc[c] = "sleep" => grants # <<>>

\* C16 (put of a present key): a put of a key that is in the cache moves the
\* key to the front of the recency order and keeps the order of the other
\* keys, the number of entries and the key set; it evicts nothing.
PutPresentKey ==
    [][ (lret'.op = "put" /\ Contains(lret'.key)) =>
            /\ lret'.found
            /\ lret'.evicted = 0
            /\ ItemKeys' = <<lret'.key>> \o SelectSeq(ItemKeys, LAMBDA x : x # lret'.key)
            /\ Len(items') = Len(items)
            /\ \A j \in Keys : (cache_map'[j] # 0) <=> (cache_map[j] # 0)
      ]_vars

\* C16's case: with two keys held, the least recently used one was put again
\* and is now at the front.
PutPresentKeyWitness ==
    /\ capacity = 2
    /\ lhist = <<[op |-> "put", key |-> 1], [op |-> "put", key |-> 2],
                 [op |-> "put", key |-> 1]>>
    /\ lret = Call("put", 1, TRUE, 0, 0)
    /\ ItemKeys = <<1, 2>>

\* C17 (contains is pure): contains(key) answers whether the key is in the map
\* and changes neither the recency order nor the nodes nor the map, so the
\* state the next put evicts from is the state before the call.
ContainsIsPure ==
    [][ lret'.op = "contains" =>
            /\ lret'.found = Contains(lret'.key)
            /\ items' = items
            /\ nodeKey' = nodeKey
            /\ cache_map' = cache_map
            /\ capacity' = capacity
            /\ lhist' = lhist
      ]_vars

\* C17's case: contains found the least recently used key of a full cache,
\* and the key is still the least recently used one.
ContainsIsPureWitness ==
    /\ capacity = 2
    /\ Len(items) = 2
    /\ lret.op = "contains"
    /\ lret.found
    /\ ItemKeys[2] = lret.key

\* C18 (try_pop never blocks): once try_pop holds the mutex its next step is
\* always possible and is its return: false on an empty queue, with the
\* queue and the caller's value as they were, else true with the head item
\* removed and stored in the caller's value; and no thread holds the mutex
\* while it is blocked in wait.
TryPopNeverBlocks ==
    [][ /\ \A c \in Consumers : cpc[c] = "pop_waiting" => cq_mutex # c
        /\ \A c \in Consumers :
              cpc[c] = "try_check" =>
                  /\ ENABLED TryPopCheck(c)
                  /\ cpc'[c] # "try_check" =>
                        /\ cpc'[c] = "idle"
                        /\ IF cq = <<>>
                           THEN /\ cret'[c] = "false"
                                /\ cq' = cq
                                /\ cval'[c] = cval[c]
                           ELSE /\ cret'[c] = "true"
                                /\ cval'[c] = Head(cq)
                                /\ cq' = Tail(cq)
      ]_vars

\* C18's case: a try_pop returned false on a queue emptied by earlier calls;
\* the caller's value is still the item it got before.
TryPopNeverBlocksWitness ==
    /\ cpc[4] = "idle"
    /\ cret[4] = "false"
    /\ cval[4] # NoItem
    /\ cq = <<>>

\* C19 as stated (minimum spacing): consecutive grants are never closer than
\* 1000 ms / calls_per_second, the limiter's minimum spacing is never below
\* that quotient and never zero.
MinSpacingIsQuotient ==
    \A i \in 1..(Len(grants) - 1) :
        /\ min_delay > 0
        /\ min_delay * calls_per_second >= IntervalMs
        /\ (grants[i + 1] - grants[i]) * calls_per_second >= IntervalMs * TicksPerMs

\* C20 (per-producer FIFO under concurrency): whatever the interleaving of
\* the producers and the consumers, two items of the same producer leave the
\* queue in the order they were pushed, and an item leaves only after every
\* earlier item of its producer.
PerProducerFifo ==
    /\ \A i, j \in 1..Len(popLog) :
          (i < j /\ popLog[i][1] = popLog[j][1]) => popLog[i][2] < popLog[j][2]
    /\ \A i \in 1..Len(popLog) :
          \A n \in 1..(popLog[i][2] - 1) :
              \E h \in 1..(i - 1) : popLog[h] = <<popLog[i][1], n>>

\* C20's case: both producers pushed, their items left the queue interleaved
\* and through both consumers.
PerProducerFifoWitness ==
    /\ Len(popLog) = MaxPush
    /\ popLog[1] = <<1, 1>>
    /\ popLog[2] = <<2, 1>>
    /\ popLog[3] = <<1, 2>>
    /\ cval[3] # NoItem
    /\ cval[4] # NoItem
    /\ cval[3][1] # cval[4][1]

\* C21 (no lost wake-up): a consumer leaves pop only with the head item of a
\* non-empty queue (on an empty queue it goes to, or stays in, wait); and
\* under fair scheduling, a consumer blocked in wait while the queue holds an
\* item eventually returns from pop (with an item, by the first part), unless
\* other consumers have emptied the queue meanwhile.
NoLostWakeup ==
    /\ [][ \A c \in Consumers :
              (InPop(c) /\ ~InPop(c)') =>
                  /\ cq # <<>>
                  /\ cret'[c] = "item"
                  /\ cval'[c] = Head(cq)
                  /\ cq' = Tail(cq) ]_vars
    /\ \A c \in Consumers :
          (cpc[c] = "pop_waiting" /\ cq # <<>>) ~> (cpc[c] = "idle" \/ cq = <<>>)

\* C21's case: a consumer that was blocked in pop on an empty queue has been
\* woken by the notification of a push (the producer is back from
\* notify_one) and has returned the pushed item.
NoLostWakeupWitness ==
    /\ Len(popLog) = 1
    /\ cpc[3] = "idle"
    /\ cret[3] = "item"
    /\ cval[3] = popLog[1]
    /\ cpc[4] = "pop_waiting"
    /\ cq = <<>>
    /\ \A p \in Producers : ppc[p] = "idle"

\* C22 (no lock across task execution): a worker that is executing a task
\* does not hold queue_mutex; the mutex is held only by a worker between its
\* lock and the end of its look at the queue, or by a caller inside the
\* critical section of enqueue or of the destructor.
LockNotHeldInTask ==
    /\ \A w \in Workers : wpc[w] = "run" => queue_mutex # w
    /\ \A w \in Workers : queue_mutex = w => wpc[w] = "check"
    /\ \A c \in Callers :
          queue_mutex = c => spc[c] \in {"enq_crit", "d_crit", "again_crit"}

\* C22's case: while one worker executes a task, a submitter is inside
\* enqueue's critical section and the other worker waits for the mutex.
LockNotHeldInTaskWitness ==
    /\ nthreads = 2
    /\ wpc[1] = "run"
    /\ wpc[2] = "lock"
    /\ queue_mutex = Aux
    /\ spc[Aux] = "enq_crit"

\* C25 (pool dequeue order is FIFO): the task a worker takes is always the
\* oldest of the tasks enqueue accepted that no worker has taken yet; that
\* order only grows at its end (by an accepted enqueue) and shrinks at its
\* front (by a dequeue).
PoolDequeueFifo ==
    [][ /\ \A t \in TaskIds :
              (tstate[t] = "queued" /\ tstate'[t] = "running") =>
                  /\ enqOrder # <<>>
                  /\ t = Head(enqOrder)
        /\ \/ enqOrder' = enqOrder
           \/ enqOrder # <<>> /\ enqOrder' = Tail(enqOrder)
           \/ \E t \in TaskIds : tstate[t] = "created" /\ enqOrder' = Append(enqOrder, t)
        /\ tasks' = enqOrder'
      ]_vars

\* C25's case: one thread enqueued three tasks; the first was taken first and
\* still runs while the second, taken later by the other worker, has ended
\* and the third is queued.
PoolDequeueFifoWitness ==
    /\ nthreads = 2
    /\ spc[Aux] = "idle"
    /\ sres[Aux] = "none"
    /\ tstate[1] = "running"
    /\ tstate[2] = "value"
    /\ enqOrder = <<3>>

\* C26 (one-way lifecycle, fixed worker set): stop starts false and no step
\* takes it from true to false; no step changes the number of workers or
\* which worker threads exist.
LifecycleOneWay ==
    /\ ~stop
    /\ [][ /\ stop => stop'
           /\ nthreads' = nthreads
           /\ \A w \in Workers : (wpc'[w] = "absent") <=> (wpc[w] = "absent")
           /\ \A w \in Workers : (wpc[w] = "absent") <=> (w > nthreads)
         ]_vars

\* C26's case: the pool ran a task, refused an enqueue made after stop was
\* set, and its shutdown has run twice.
LifecycleOneWayWitness ==
    /\ spc[Main] = "destroyed_twice"
    /\ stop
    /\ nthreads = 1
    /\ \E t \in TaskIds : tstate[t] = "rejected"
    /\ \E t \in TaskIds : runs[t] = 1

\* The callers between the read of last_call (line 534) and the write of the
\* new last_call (line 541).
InAcquire == {c \in RateCallers : rpc[c] \in {"now", "sleep", "stamp"}}

\* C24 (acquires are serialized): at most one caller is between reading
\* last_call and writing it, and that caller holds the mutex, also for the
\* whole of its sleep; while a caller is there, last_call and the grants
\* change only by that caller's own write at the end of its call.
AcquireSerialized ==
    [][ /\ Cardinality(InAcquire) <= 1
        /\ Cardinality(InAcquire') <= 1
        /\ \A c \in InAcquire : rl_mutex = c
        /\ \A c \in InAcquire' : rl_mutex' = c
        /\ \A c \in InAcquire :
              \/ /\ c \in InAcquire'
                 /\ last_call' = last_call
                 /\ grants' = grants
              \/ /\ rpc[c] = "stamp"
                 /\ rpc'[c] = "idle"
                 /\ grants' = Append(grants, last_call')
                 /\ last_call' >= rnow[c]
      ]_vars

\* C24's case: a caller sleeps with the mutex held while the other caller,
\* which called acquire meanwhile, waits for the mutex.
AcquireSerializedWitness ==
    /\ rpc[1] = "sleep"
    /\ rl_mutex = 1
    /\ rpc[2] = "lock"
    /\ Len(grants) >= 1

\* C23 as stated (one lock guards the cache): when two threads call put and
\* get on one cache at the same time, no call fails, and once the calls have
\* returned the cache is as consistent as after calls made one at a time: at
\* most capacity entries, the map's keys are the list's keys, no key and no
\* node is in the list twice, each entry points at the node of its key.
LruCallsAtomic ==
    /\ LruDefined
    /\ (\A t \in LruThreads : tpc[t] = "idle") =>
          /\ MapSize(cache_map) <= capacity
          /\ Len(items) = MapSize(cache_map)
          /\ {k \in Keys : cache_map[k] # 0} = {ItemKeys[i] : i \in 1..Len(items)}
          /\ \A i, j \in 1..Len(items) :
                i # j => (items[i] # items[j] /\ ItemKeys[i] # ItemKeys[j])
          /\ \A k \in Keys : cache_map[k] # 0 => nodeKey[cache_map[k]] = k

====
